---- MODULE Spec2Model ----
(***************************************************************************)
(* PTOManager (src/main.py): a ledger of paid-time-off requests kept in a  *)
(* dict and persisted as one JSON document.                                *)
(*                                                                         *)
(* Representation.  A Python str is a sequence of one-character strings,   *)
(* so "1-15-24" is <<"1","-","1","5","-","2","4">>.  Dict keys, which the  *)
(* code only ever uses as whole constants, are TLA+ strings.  A Python     *)
(* number is a record [ty, n]: int n or the float n.0.  An Optional value  *)
(* is None or Some(v).  A dict is a function from its keys.                *)
(***************************************************************************)
EXTENDS Integers, Sequences, FiniteSets, TLC

VARIABLES
    data,      \* self.data
    file,      \* the content of self.data_file
    last,      \* the record of the observed call
    observed   \* the most recent call was the observed one

vars == <<data, file, last, observed>>

\* ------------------------------------------------------------------ bounds
\* Longest request list the model lets add_pto_request build.
MaxRequests == 2

\* ------------------------------------------------------- Python primitives
None == [some |-> FALSE]

Some(v) == [some |-> TRUE, v |-> v]

PyInt(n) == [ty |-> "int", n |-> n]

PyFloat(n) == [ty |-> "float", n |-> n]

\* int + int is an int, anything with a float is a float
PyAdd(a, b) == [ty |-> IF a.ty = "int" /\ b.ty = "int" THEN "int" ELSE "float", n |-> a.n + b.n]

PySub(a, b) == [ty |-> IF a.ty = "int" /\ b.ty = "int" THEN "int" ELSE "float", n |-> a.n - b.n]

Digits == <<"0", "1", "2", "3", "4", "5", "6", "7", "8", "9">>

DigitSet == {Digits[i] : i \in 1..10}

NonZeroDigitSet == DigitSet \ {"0"}

DigitValue == [c \in DigitSet |-> (CHOOSE i \in 1..10 : Digits[i] = c) - 1]

DigitVal(c) == DigitValue[c]

DigitChar(n) == Digits[n + 1]

\* Code point order of the characters the model uses.
Ord(c) ==
    CASE c = " " -> 32
      [] c = "\"" -> 34
      [] c = "-" -> 45
      [] c = "." -> 46
      [] c \in DigitSet -> 48 + DigitVal(c)
      [] c = "\\" -> 92
      [] OTHER -> 97

\* str < str: Python compares code point by code point, a proper prefix first.
RECURSIVE StrLess(_, _)
StrLess(a, b) ==
    IF b = <<>> THEN FALSE
    ELSE IF a = <<>> THEN TRUE
    ELSE IF Ord(Head(a)) # Ord(Head(b)) THEN Ord(Head(a)) < Ord(Head(b))
    ELSE StrLess(Tail(a), Tail(b))

\* int(s) for a string of decimal digits
RECURSIVE DigitsToInt(_)
DigitsToInt(s) ==
    IF s = <<>> THEN 0
    ELSE 10 * DigitsToInt(SubSeq(s, 1, Len(s) - 1)) + DigitVal(s[Len(s)])

\* str(n) for n >= 0
RECURSIVE IntToDigits(_)
IntToDigits(n) ==
    IF n < 10 THEN <<DigitChar(n)>>
    ELSE Append(IntToDigits(n \div 10), DigitChar(n % 10))

\* "%02d" % n
Pad2(n) == IF n < 10 THEN <<"0", DigitChar(n)>> ELSE IntToDigits(n)

\* ------------------------------------------------------------------- dates
\* strptime directive %m: 1[0-2]|0[1-9]|[1-9]
MonthField(f) ==
    \/ Len(f) = 2 /\ f[1] = "1" /\ f[2] \in {"0", "1", "2"}
    \/ Len(f) = 2 /\ f[1] = "0" /\ f[2] \in NonZeroDigitSet
    \/ Len(f) = 1 /\ f[1] \in NonZeroDigitSet

\* strptime directive %d: 3[01]|[12]\d|0[1-9]|[1-9]| [1-9]
DayField(f) ==
    \/ Len(f) = 2 /\ f[1] = "3" /\ f[2] \in {"0", "1"}
    \/ Len(f) = 2 /\ f[1] \in {"1", "2"} /\ f[2] \in DigitSet
    \/ Len(f) = 2 /\ f[1] \in {"0", " "} /\ f[2] \in NonZeroDigitSet
    \/ Len(f) = 1 /\ f[1] \in NonZeroDigitSet

\* strptime directive %y: \d\d
YearField(f) == Len(f) = 2 /\ f[1] \in DigitSet /\ f[2] \in DigitSet

\* int() of a matched field (a leading blank of %d is skipped)
FieldVal(f) == DigitsToInt(SelectSeq(f, LAMBDA c : c # " "))

\* %y: values 69-99 are 1969-1999, values 0-68 are 2000-2068
FullYear(yy) == IF yy >= 69 THEN 1900 + yy ELSE 2000 + yy

IsLeap(y) == (y % 4 = 0 /\ y % 100 # 0) \/ y % 400 = 0

DaysInMonth(y, m) ==
    IF m = 2 THEN (IF IsLeap(y) THEN 29 ELSE 28)
    ELSE IF m \in {4, 6, 9, 11} THEN 30
    ELSE 31

\* datetime.strptime(date_str, "%m-%d-%y"): the date <<year, month, day>>,
\* or None where strptime raises ValueError.  No directive matches a "-", so
\* the string has to be month "-" day "-" year with nothing left over.
strptime_mdy(s) ==
    LET dash == {i \in 1..Len(s) : s[i] = "-"}
        i1 == CHOOSE i \in dash : \A j \in dash : i <= j
        i2 == CHOOSE i \in dash : \A j \in dash : i >= j
        mf == SubSeq(s, 1, i1 - 1)
        df == SubSeq(s, i1 + 1, i2 - 1)
        yf == SubSeq(s, i2 + 1, Len(s))
    IN  IF Cardinality(dash) = 2 /\ MonthField(mf) /\ DayField(df) /\ YearField(yf)
        THEN LET y == FullYear(FieldVal(yf))
                 m == FieldVal(mf)
                 d == FieldVal(df)
             IN  IF d <= DaysInMonth(y, m) THEN Some(<<y, m, d>>) ELSE None
        ELSE None

\* date_obj.strftime("%Y-%m-%d")
strftime_iso(t) == IntToDigits(t[1]) \o <<"-">> \o Pad2(t[2]) \o <<"-">> \o Pad2(t[3])

\* PTOManager._validate_date
_validate_date(date_str) ==
    LET date_obj == strptime_mdy(date_str)
    IN  IF date_obj.some THEN Some(strftime_iso(date_obj.v)) ELSE None

\* ------------------------------------------------------------------ inputs
\* Date strings a caller types: the same day padded and unpadded, a day whose
\* two-digit year is 1969, a leap day, the same day of a year that has none,
\* the spec's example of an invalid date, and the empty string.
DateInputs ==
    { <<"0", "1", "-", "1", "5", "-", "2", "4">>,
      <<"1", "-", "1", "5", "-", "2", "4">>,
      <<"1", "2", "-", "3", "1", "-", "6", "9">>,
      <<"0", "2", "-", "2", "9", "-", "2", "4">>,
      <<"0", "2", "-", "2", "9", "-", "2", "3">>,
      <<"1", "3", "-", "4", "5", "-", "9", "9">>,
      <<>> }

\* New dates an edit is given: a day, the 1969 day, the invalid example and
\* the empty string.
NewDateInputs ==
    { <<"1", "-", "1", "5", "-", "2", "4">>,
      <<"1", "2", "-", "3", "1", "-", "6", "9">>,
      <<"1", "3", "-", "4", "5", "-", "9", "9">>,
      <<>> }

\* Notes: none, and one that json has to escape.
NoteInputs == { <<>>, <<"a", "\"">> }

\* Allowances: the GUI's askfloat gives a float.
HoursInputs == { PyFloat(80) }

\* _validate_date is a pure function: its values on the date strings the
\* callers type, worked out once.
ValidatedDate == [date_str \in DateInputs |-> _validate_date(date_str)]

\* -------------------------------------------------------------------- JSON
\* The file's text is kept as json's token stream: punctuation, literals,
\* and the texts of numbers and strings character by character.  The white
\* space that indent=2 writes means nothing to json.load and is left out.  A
\* key's text is kept as one piece.
Punct(c) == [t |-> "punct", s |-> <<c>>]

Lit(w) == [t |-> "lit", s |-> <<w>>]

NumTok(s) == [t |-> "num", s |-> s]

StrTok(s) == [t |-> "str", s |-> s]

KeyTok(k) == StrTok(<<k>>)

LBrace == Punct("{")

RBrace == Punct("}")

LBracket == Punct("[")

RBracket == Punct("]")

Colon == Punct(":")

Comma == Punct(",")

JsonTrue == Lit("true")

JsonFalse == Lit("false")

\* Escape with a slip: nothing is escaped.
EscapeNothing(s) == s

\* json's string escaping (py_encode_basestring_ascii) on the model's characters
RECURSIVE Escape(_)
Escape(s) ==
    IF \A i \in 1..Len(s) : s[i] \notin {"\"", "\\"} THEN s
    ELSE (IF Head(s) \in {"\"", "\\"} THEN <<"\\", Head(s)>> ELSE <<Head(s)>>) \o Escape(Tail(s))

\* json's string scanner (py_scanstring): None on an invalid escape
RECURSIVE Unescape(_)
Unescape(s) ==
    IF \A i \in 1..Len(s) : s[i] \notin {"\"", "\\"} THEN Some(s)
    ELSE IF Head(s) = "\\"
         THEN IF Len(s) >= 2 /\ s[2] \in {"\"", "\\"}
              THEN LET r == Unescape(SubSeq(s, 3, Len(s)))
                   IN  IF r.some THEN Some(<<s[2]>> \o r.v) ELSE None
              ELSE None
         ELSE IF Head(s) = "\"" THEN None
         ELSE LET r == Unescape(Tail(s))
              IN  IF r.some THEN Some(<<Head(s)>> \o r.v) ELSE None

\* int.__repr__ and float.__repr__ (floats of the model are whole: n.0)
NumText(x) ==
    LET mag == IntToDigits(IF x.n < 0 THEN 0 - x.n ELSE x.n)
        sgn == IF x.n < 0 THEN <<"-">> ELSE <<>>
    IN  sgn \o mag \o (IF x.ty = "float" THEN <<".", "0">> ELSE <<>>)

\* json's NUMBER_RE: -?digits(.digits)? is a float when it has a fraction,
\* an int otherwise; None when the text is no number of the model
NumVal(s) ==
    LET neg == s # <<>> /\ Head(s) = "-"
        body == IF neg THEN Tail(s) ELSE s
        dots == {i \in 1..Len(body) : body[i] = "."}
        ip == IF dots = {} THEN body ELSE SubSeq(body, 1, (CHOOSE i \in dots : TRUE) - 1)
        fp == IF dots = {} THEN <<>> ELSE SubSeq(body, (CHOOSE i \in dots : TRUE) + 1, Len(body))
        sign == IF neg THEN 0 - 1 ELSE 1
    IN  IF s # <<>> /\ \A i \in 1..Len(s) : s[i] \in DigitSet THEN Some(PyInt(DigitsToInt(s)))
        ELSE IF Cardinality(dots) > 1 \/ ip = <<>> \/ \E i \in 1..Len(ip) : ip[i] \notin DigitSet
        THEN None
        ELSE IF dots = {} THEN Some(PyInt(sign * DigitsToInt(ip)))
        ELSE IF fp = <<"0">> THEN Some(PyFloat(sign * DigitsToInt(ip)))
        ELSE None

DumpRequest(r) ==
    << LBrace,
       KeyTok("date"), Colon, StrTok(Escape(r.date)), Comma,
       KeyTok("is_half_day"), Colon, (IF r.is_half_day THEN JsonTrue ELSE JsonFalse), Comma,
       KeyTok("hours"), Colon, NumTok(NumText(r.hours)), Comma,
       KeyTok("note"), Colon, StrTok(Escape(r.note)),
       RBrace >>

RECURSIVE DumpRequests(_)
DumpRequests(rs) ==
    IF rs = <<>> THEN <<>>
    ELSE DumpRequest(Head(rs)) \o (IF Len(rs) > 1 THEN <<Comma>> ELSE <<>>) \o DumpRequests(Tail(rs))

\* The keys of the document in the order the default structure gives them.
KeyOrder == <<"yearly_pto_hours", "used_pto_hours", "pto_requests">>

DumpMember(d, k) ==
    <<KeyTok(k), Colon>> \o
    (IF k = "pto_requests"
     THEN <<LBracket>> \o DumpRequests(d[k]) \o <<RBracket>>
     ELSE <<NumTok(NumText(d[k]))>>)

RECURSIVE DumpMembers(_, _)
DumpMembers(d, ks) ==
    IF ks = <<>> THEN <<>>
    ELSE DumpMember(d, Head(ks)) \o (IF Len(ks) > 1 THEN <<Comma>> ELSE <<>>) \o DumpMembers(d, Tail(ks))

\* json.dump(self.data, f, indent=2)
JsonDump(d) ==
    <<LBrace>> \o DumpMembers(d, SelectSeq(KeyOrder, LAMBDA k : k \in DOMAIN d)) \o <<RBrace>>

\* json.load: recursive descent over the tokens; ok = FALSE is JSONDecodeError
ParseFail == [ok |-> FALSE, val |-> <<>>, next |-> 0]

ParseOk(v, n) == [ok |-> TRUE, val |-> v, next |-> n]

IsTok(t, i, tok) == i <= Len(t) /\ t[i] = tok

RECURSIVE ParseValue(_, _), ParseElements(_, _, _), ParseMembers(_, _, _)
ParseValue(t, i) ==
    IF i > Len(t) THEN ParseFail
    ELSE IF t[i].t = "num"
         THEN LET v == NumVal(t[i].s) IN IF v.some THEN ParseOk(v.v, i + 1) ELSE ParseFail
    ELSE IF t[i].t = "str"
         THEN LET v == Unescape(t[i].s) IN IF v.some THEN ParseOk(v.v, i + 1) ELSE ParseFail
    ELSE IF t[i] = JsonTrue THEN ParseOk(TRUE, i + 1)
    ELSE IF t[i] = JsonFalse THEN ParseOk(FALSE, i + 1)
    ELSE IF t[i] = LBracket
         THEN IF IsTok(t, i + 1, RBracket) THEN ParseOk(<<>>, i + 2) ELSE ParseElements(t, i + 1, <<>>)
    ELSE IF t[i] = LBrace
         THEN IF IsTok(t, i + 1, RBrace) THEN ParseOk(<<>>, i + 2) ELSE ParseMembers(t, i + 1, <<>>)
    ELSE ParseFail

ParseElements(t, i, acc) ==
    LET v == ParseValue(t, i)
    IN  IF ~v.ok THEN ParseFail
        ELSE IF IsTok(t, v.next, Comma) THEN ParseElements(t, v.next + 1, Append(acc, v.val))
        ELSE IF IsTok(t, v.next, RBracket) THEN ParseOk(Append(acc, v.val), v.next + 1)
        ELSE ParseFail

ParseMembers(t, i, acc) ==
    IF ~(i + 1 <= Len(t) /\ t[i].t = "str" /\ Len(t[i].s) = 1 /\ t[i + 1] = Colon)
    THEN ParseFail
    ELSE LET v == ParseValue(t, i + 2)
             got == (t[i].s[1] :> v.val) @@ acc
         IN  IF ~v.ok THEN ParseFail
             ELSE IF IsTok(t, v.next, Comma) THEN ParseMembers(t, v.next + 1, got)
             ELSE IF IsTok(t, v.next, RBrace) THEN ParseOk(got, v.next + 1)
             ELSE ParseFail

\* json.load(f): the value, or ok = FALSE where it raises JSONDecodeError
\* (no value, a malformed value, or extra data after the value)
JsonLoad(t) ==
    LET v == ParseValue(t, 1)
    IN  IF v.ok /\ v.next = Len(t) + 1 THEN v ELSE ParseFail

\* ------------------------------------------------------------- PTOManager
\* A file that does not exist.
Missing == [exists |-> FALSE, text |-> <<>>]

\* PTOManager._load_data: the default data structure
DefaultData ==
    [yearly_pto_hours |-> PyInt(0), used_pto_hours |-> PyInt(0), pto_requests |-> <<>>]

\* PTOManager._load_data
_load_data(f) ==
    LET loaded == JsonLoad(f.text)
    IN  IF f.exists /\ loaded.ok THEN loaded.val ELSE DefaultData

\* PTOManager._save_data: the content open(.., 'w') and json.dump leave in the file
_save_data(d) == [exists |-> TRUE, text |-> JsonDump(d)]

\* What one call did: the dict it leaves, the message it printed (as the error
\* kind; "KeyError" is the uncaught exception of a dict without the key), and
\* the documents its _save_data calls wrote, in order.
Outcome(d, result, written) == [data |-> d, result |-> result, written |-> written]

\* "if not x" and "if x" on an Optional[str]
Truthy(x) == x.some /\ x.v # <<>>

\* SortByDate with a slip: the sort is left out.
NotSorted(s) == s

\* list.sort(key=lambda x: x["date"]): stable, ascending by the date string
RECURSIVE InsertByDate(_, _)
InsertByDate(s, x) ==
    IF s = <<>> THEN <<x>>
    ELSE IF StrLess(x.date, Head(s).date) THEN <<x>> \o s
    ELSE <<Head(s)>> \o InsertByDate(Tail(s), x)

RECURSIVE SortByDate(_)
SortByDate(s) ==
    IF s = <<>> THEN <<>>
    ELSE InsertByDate(SortByDate(SubSeq(s, 1, Len(s) - 1)), s[Len(s)])

\* hours = 4 if is_half_day else 8
HoursFor(is_half_day) == PyInt(IF is_half_day THEN 4 ELSE 8)

\* FirstWithDate with a slip: the loop's index is used after a loop that found
\* nothing, so the last request is taken.
FirstWithDateOrLast(rs, iso) ==
    IF \E i \in 1..Len(rs) : rs[i].date = iso
    THEN CHOOSE i \in 1..Len(rs) : rs[i].date = iso /\ \A j \in 1..(i - 1) : rs[j].date # iso
    ELSE Len(rs)

\* the index the for loop stops at: the first request with this date, 0 if none
FirstWithDate(rs, iso) ==
    IF \E i \in 1..Len(rs) : rs[i].date = iso
    THEN CHOOSE i \in 1..Len(rs) : rs[i].date = iso /\ \A j \in 1..(i - 1) : rs[j].date # iso
    ELSE 0

\* list.pop(i)
Pop(rs, i) == SubSeq(rs, 1, i - 1) \o SubSeq(rs, i + 1, Len(rs))

\* Reject with a slip: the document is saved before the return.
RejectAfterSave(d, kind) == Outcome(d, kind, <<_save_data(d)>>)

\* print(message); return: the call ends, nothing changed and nothing saved
Reject(d, kind) == Outcome(d, kind, <<>>)

\* An uncaught KeyError ends the call where it is: d is the dict as it then is.
Raise(d) == Outcome(d, "KeyError", <<>>)

\* DateExists with a slip: the loop compares the wrong field.
DateExistsByNote(rs, iso) == \E i \in 1..Len(rs) : rs[i].note = iso

\* add_pto_request's loop: some request already has this date
DateExists(rs, iso) == \E i \in 1..Len(rs) : rs[i].date = iso

\* WithHalfDay with a slip: the hours are not recomputed.
WithHalfDayOnly(request, is_half_day) == [request EXCEPT !.is_half_day = is_half_day]

\* edit_pto_request: request["is_half_day"] = is_half_day and the hours that follow
WithHalfDay(request, is_half_day) ==
    [request EXCEPT !.is_half_day = is_half_day, !.hours = HoursFor(is_half_day)]

\* EditedUsed with a slip: the old hours are not taken off.
EditedUsedKeepsOld(used, old_hours, new_hours) == PyAdd(used, new_hours)

\* edit_pto_request: used_pto_hours - old_hours + request["hours"]
EditedUsed(used, old_hours, new_hours) == PyAdd(PySub(used, old_hours), new_hours)

\* set_yearly_pto_hours with a slip: the save is left out.
set_yearly_without_save(d, hours) == Outcome(("yearly_pto_hours" :> hours) @@ d, "ok", <<>>)

\* PTOManager.set_yearly_pto_hours
set_yearly_pto_hours(d, hours) ==
    LET d1 == ("yearly_pto_hours" :> hours) @@ d
    IN  Outcome(d1, "ok", <<_save_data(d1)>>)

\* PTOManager.add_pto_request
add_pto_request(d, date, is_half_day, note) ==
    LET normalized_date == ValidatedDate[date]
    IN  IF ~Truthy(normalized_date) THEN Reject(d, "InvalidDate")
        ELSE IF "pto_requests" \notin DOMAIN d THEN Raise(d)
        ELSE IF DateExists(d.pto_requests, normalized_date.v) THEN Reject(d, "DuplicateDate")
        ELSE LET new_request == [date |-> normalized_date.v, is_half_day |-> is_half_day,
                                 hours |-> HoursFor(is_half_day), note |-> note]
                 d1 == [d EXCEPT !.pto_requests = SortByDate(Append(@, new_request))]
             IN  IF "used_pto_hours" \notin DOMAIN d THEN Raise(d1)
                 ELSE LET d2 == [d1 EXCEPT !.used_pto_hours = PyAdd(@, new_request.hours)]
                      IN  Outcome(d2, "ok", <<_save_data(d2)>>)

\* PTOManager.edit_pto_request
edit_pto_request(d, date, new_date, is_half_day, note) ==
    LET normalized_date == ValidatedDate[date]
        normalized_new_date == IF Truthy(new_date) THEN ValidatedDate[new_date.v] ELSE None
    IN  IF ~Truthy(normalized_date) THEN Reject(d, "InvalidDate")
        ELSE IF Truthy(new_date) /\ ~Truthy(normalized_new_date) THEN Reject(d, "InvalidDate")
        ELSE IF "pto_requests" \notin DOMAIN d THEN Raise(d)
        ELSE LET i == FirstWithDate(d.pto_requests, normalized_date.v)
             IN  IF i = 0 THEN Reject(d, "NotFound")
                 ELSE LET request == d.pto_requests[i]
                          old_hours == request.hours
                          r1 == IF normalized_new_date.some
                                THEN [request EXCEPT !.date = normalized_new_date.v]
                                ELSE request
                          r2 == IF is_half_day.some THEN WithHalfDay(r1, is_half_day.v) ELSE r1
                          r3 == IF note.some THEN [r2 EXCEPT !.note = note.v] ELSE r2
                          d1 == [d EXCEPT !.pto_requests[i] = r3]
                      IN  IF "used_pto_hours" \notin DOMAIN d THEN Raise(d1)
                          ELSE LET d2 == [d1 EXCEPT !.used_pto_hours = EditedUsed(@, old_hours, r3.hours)]
                                   d3 == [d2 EXCEPT !.pto_requests = SortByDate(@)]
                               IN  Outcome(d3, "ok", <<_save_data(d3)>>)

\* PTOManager.remove_pto_request
remove_pto_request(d, date) ==
    LET normalized_date == ValidatedDate[date]
    IN  IF ~Truthy(normalized_date) THEN Reject(d, "InvalidDate")
        ELSE IF "pto_requests" \notin DOMAIN d THEN Raise(d)
        ELSE LET i == FirstWithDate(d.pto_requests, normalized_date.v)
             IN  IF i = 0 THEN Reject(d, "NotFound")
                 ELSE IF "used_pto_hours" \notin DOMAIN d THEN Raise(d)
                 ELSE LET d1 == [d EXCEPT !.used_pto_hours = PySub(@, d.pto_requests[i].hours)]
                          d2 == [d1 EXCEPT !.pto_requests = Pop(@, i)]
                      IN  Outcome(d2, "ok", <<_save_data(d2)>>)

\* PTOManager.__init__
construct(f) == Outcome(_load_data(f), "ok", <<>>)

\* ------------------------------------------------------------ the callers
NoArgs == [date |-> None, new_date |-> None, is_half_day |-> None, note |-> None, hours |-> None]

\* The record of a call that is not observed.
Unrecorded == [op |-> "call", args |-> NoArgs, result |-> "", writes |-> 0]

\* The state after a call: the object's dict and the file as the last write
\* left it.  A run ends with one call observed: `last` then records that call,
\* its arguments, its result and the number of its writes, and nothing follows.
Call(op, args, out, obs) ==
    /\ data' = out.data
    /\ file' = IF out.written = <<>> THEN file ELSE out.written[Len(out.written)]
    /\ last' = IF obs
               THEN [op |-> op, args |-> args, result |-> out.result, writes |-> Len(out.written)]
               ELSE Unrecorded
    /\ observed' = obs

SetAllowance ==
    /\ ~observed
    /\ \E hours \in HoursInputs, obs \in BOOLEAN :
           Call("set", [NoArgs EXCEPT !.hours = Some(hours)], set_yearly_pto_hours(data, hours), obs)

AddRequest ==
    /\ ~observed
    /\ \E date \in DateInputs, is_half_day \in BOOLEAN, note \in NoteInputs, obs \in BOOLEAN :
           LET out == add_pto_request(data, date, is_half_day, note)
           IN  /\ "pto_requests" \in DOMAIN out.data => Len(out.data.pto_requests) <= MaxRequests
               /\ Call("add", [NoArgs EXCEPT !.date = Some(date), !.is_half_day = Some(is_half_day),
                                             !.note = Some(note)], out, obs)

EditRequest ==
    /\ ~observed
    /\ \E date \in DateInputs,
          new_date \in {None} \cup {Some(x) : x \in NewDateInputs},
          is_half_day \in {None, Some(TRUE), Some(FALSE)},
          note \in {None} \cup {Some(x) : x \in NoteInputs},
          obs \in BOOLEAN :
           Call("edit", [NoArgs EXCEPT !.date = Some(date), !.new_date = new_date,
                                       !.is_half_day = is_half_day, !.note = note],
                edit_pto_request(data, date, new_date, is_half_day, note), obs)

RemoveRequest ==
    /\ ~observed
    /\ \E date \in DateInputs, obs \in BOOLEAN :
           Call("remove", [NoArgs EXCEPT !.date = Some(date)], remove_pto_request(data, date), obs)

\* The program is started again on the file as it is.
Restart ==
    /\ ~observed
    /\ \E obs \in BOOLEAN : Call("construct", NoArgs, construct(file), obs)

Next == SetAllowance \/ AddRequest \/ EditRequest \/ RemoveRequest \/ Restart

Started(f) ==
    /\ file = f
    /\ data = construct(f).data
    /\ last = [op |-> "construct", args |-> NoArgs, result |-> construct(f).result, writes |-> 0]
    /\ observed = FALSE

\* The first start, with no file: the default empty ledger.
Init == Started(Missing)

Spec == Init /\ [][Next]_vars

\* ------------------------------------------------------ starting on a file
\* A document with one full-day request, as _save_data writes it.
OneRequestData ==
    [yearly_pto_hours |-> PyFloat(80), used_pto_hours |-> PyInt(8),
     pto_requests |-> << [date |-> <<"2", "0", "2", "4", "-", "0", "1", "-", "1", "5">>,
                          is_half_day |-> FALSE, hours |-> PyInt(8), note |-> <<>>] >>]

\* An empty file.
EmptyFile == [exists |-> TRUE, text |-> <<>>]

\* A document cut short: the closing brace is missing.
TruncatedFile ==
    [exists |-> TRUE, text |-> SubSeq(JsonDump(OneRequestData), 1, Len(JsonDump(OneRequestData)) - 1)]

\* The JSON text {}: well-formed, and no ledger document.
EmptyObjectFile == [exists |-> TRUE, text |-> <<LBrace, RBrace>>]

\* What the file may hold when the program starts.
StartupFiles ==
    {Missing, EmptyFile, TruncatedFile, EmptyObjectFile, _save_data(OneRequestData)}

InitLoad == \E f \in StartupFiles : Started(f)

SpecLoad == InitLoad /\ [][Next]_vars

\* ------------------------------------------------------------- properties
Requests == data.pto_requests

RECURSIVE SumHours(_)
SumHours(rs) == IF rs = <<>> THEN 0 ELSE Head(rs).hours.n + SumHours(Tail(rs))

\* The calendar day a canonical YYYY-MM-DD string names, as a number that
\* grows with the calendar.
DayNumber(iso) ==
    DigitsToInt(SubSeq(iso, 1, 4)) * 10000 + DigitsToInt(SubSeq(iso, 6, 7)) * 100
        + DigitsToInt(SubSeq(iso, 9, 10))

Jan15 == <<"2", "0", "2", "4", "-", "0", "1", "-", "1", "5">>

Feb29 == <<"2", "0", "2", "4", "-", "0", "2", "-", "2", "9">>

Dec31 == <<"1", "9", "6", "9", "-", "1", "2", "-", "3", "1">>

Recorded(op) == observed /\ last.op = op

Mutators == {"set", "add", "edit", "remove"}

\* C1: used_pto_hours is the sum of the hours of the requests in the list.
UsedIsSumOfHours == data.used_pto_hours.n = SumHours(Requests)

\* C1 witness: a remove that leaves one half-day request of two requests.
UsedIsSumOfHoursSeen ==
    /\ Recorded("remove") /\ last.result = "ok"
    /\ Len(Requests) = 1 /\ Requests[1].is_half_day
    /\ data.used_pto_hours = PyInt(4)

\* C2: no two requests in the list have the same date.
DatesAreUnique ==
    \A i, j \in 1..Len(Requests) : i # j => Requests[i].date # Requests[j].date

StorageFollowsMemory ==
    /\ file.exists => LET stored == JsonLoad(file.text) IN stored.ok /\ stored.val = data
    /\ observed /\ last.op \in Mutators =>
          /\ last.writes = (IF last.result = "ok" THEN 1 ELSE 0)
          /\ last.result = "ok" => file.exists

\* C6 witness: a failing call after successful ones, the file still in step.
StorageFollowsMemorySeen ==
    /\ Recorded("add") /\ last.result = "DuplicateDate"
    /\ file.exists /\ Len(Requests) = 2
    /\ data.yearly_pto_hours = PyFloat(80)

\* C7: saving the document and loading it in a fresh PTOManager gives the
\* same allowance, the same used hours and the same requests in the same order.
RoundTrip == _load_data(_save_data(data)) = data

\* C7 witness: a float allowance and two requests, one with a note that json
\* escapes.
RoundTripSeen ==
    /\ data.yearly_pto_hours = PyFloat(80)
    /\ Len(Requests) = 2
    /\ Requests[1].note = <<"a", "\"">> /\ Requests[2].is_half_day

\* The observed call's arguments, seen from the state before it.
Args == last'.args

\* The canonical date of the observed call's lookup date: None if unparseable.
Lookup == _validate_date(Args.date.v)

\* The call changed nothing: the dict and the file are as before.
NoOp == data' = data /\ file' = file /\ last'.writes = 0

\* Some request of the list before the call has the lookup date.
LookupPresent ==
    Lookup.some /\ \E i \in 1..Len(Requests) : Requests[i].date = Lookup.v

\* C3: an add whose date parses to the date of a request in the list fails
\* with DuplicateDate and changes neither the dict nor the file.
AddDuplicateRejected ==
    [][ (observed' /\ last'.op = "add" /\ LookupPresent)
        => (last'.result = "DuplicateDate" /\ NoOp) ]_vars

\* C3 witness: the unpadded spelling of a day already in the list, with
\* another half-day flag and another note, was refused.
AddDuplicateRejectedSeen ==
    /\ Recorded("add") /\ last.result = "DuplicateDate"
    /\ last.args.date = Some(<<"1", "-", "1", "5", "-", "2", "4">>)
    /\ \E i \in 1..Len(Requests) :
          /\ Requests[i].date = Jan15
          /\ Requests[i].is_half_day # last.args.is_half_day.v
          /\ Requests[i].note # last.args.note.v

\* C5 as claimed: an add with an unparseable date, and an edit with an
\* unparseable lookup date or an unparseable new date, fail with InvalidDate
\* and change nothing.
InvalidDateRejected ==
    [][ (observed' /\ (\/ last'.op = "add" /\ ~Lookup.some
                       \/ last'.op = "edit" /\ ~Lookup.some
                       \/ last'.op = "edit" /\ Args.new_date.some
                             /\ ~_validate_date(Args.new_date.v).some))
        => (last'.result = "InvalidDate" /\ NoOp) ]_vars

\* C5 amended: the same, for a new date that is not the empty string.
NonEmptyInvalidDateRejected ==
    [][ (observed' /\ (\/ last'.op = "add" /\ ~Lookup.some
                       \/ last'.op = "edit" /\ ~Lookup.some
                       \/ last'.op = "edit" /\ Args.new_date.some /\ Args.new_date.v # <<>>
                             /\ ~_validate_date(Args.new_date.v).some))
        => (last'.result = "InvalidDate" /\ NoOp) ]_vars

\* C5 witness: an edit of a request that is in the list, with a half-day flag
\* and a note, was refused for its new date 13-45-99.
NonEmptyInvalidDateRejectedSeen ==
    /\ Recorded("edit") /\ last.result = "InvalidDate"
    /\ last.args.new_date = Some(<<"1", "3", "-", "4", "5", "-", "9", "9">>)
    /\ last.args.is_half_day.some /\ last.args.note.some
    /\ \E i \in 1..Len(Requests) : Some(Requests[i].date) = _validate_date(last.args.date.v)

\* C8: an edit of a date that is in the list changes the first request with
\* that date and nothing else: a field that is not supplied keeps its value,
\* a supplied one takes the new value when the edit succeeds, hours are 4 or
\* 8 by the supplied half-day flag and are otherwise kept, used_pto_hours
\* moves by new hours minus old hours, and the other requests and the
\* allowance stay as they are.
EditIsPartialUpdate ==
    [][ (observed' /\ last'.op = "edit" /\ LookupPresent)
        => LET rs == data.pto_requests
               rs2 == data'.pto_requests
               i == CHOOSE k \in 1..Len(rs) :
                        rs[k].date = Lookup.v /\ \A m \in 1..(k - 1) : rs[m].date # Lookup.v
               ok == last'.result = "ok"
           IN  /\ data'.yearly_pto_hours = data.yearly_pto_hours
               /\ Len(rs2) = Len(rs)
               /\ \E j \in 1..Len(rs2) :
                     /\ Pop(rs2, j) = Pop(rs, i)
                     /\ ~Args.new_date.some => rs2[j].date = rs[i].date
                     /\ ~Args.is_half_day.some =>
                            rs2[j].is_half_day = rs[i].is_half_day /\ rs2[j].hours = rs[i].hours
                     /\ ~Args.note.some => rs2[j].note = rs[i].note
                     /\ ok /\ Truthy(Args.new_date) =>
                            Some(rs2[j].date) = _validate_date(Args.new_date.v)
                     /\ ok /\ Args.is_half_day.some =>
                            /\ rs2[j].is_half_day = Args.is_half_day.v
                            /\ rs2[j].hours = PyInt(IF Args.is_half_day.v THEN 4 ELSE 8)
                     /\ ok /\ Args.note.some => rs2[j].note = Args.note.v
                     /\ ~ok => rs2[j] = rs[i]
                     /\ data'.used_pto_hours.n =
                            data.used_pto_hours.n - rs[i].hours.n + rs2[j].hours.n ]_vars

\* C8 witness: only the half-day flag was supplied, for the first of two
\* requests, a full day with a note: 16 used hours became 12.
EditIsPartialUpdateSeen ==
    /\ Recorded("edit") /\ last.result = "ok"
    /\ ~last.args.new_date.some /\ last.args.is_half_day = Some(TRUE) /\ ~last.args.note.some
    /\ Len(Requests) = 2
    /\ Some(Requests[1].date) = _validate_date(last.args.date.v)
    /\ Requests[1].hours = PyInt(4) /\ Requests[1].note = <<"a", "\"">>
    /\ Requests[2].hours = PyInt(8)
    /\ data.used_pto_hours = PyInt(12)

\* C9 as claimed: an edit or a remove whose date parses and is the date of no
\* request fails with NotFound and changes nothing.
AbsentDateNotFound ==
    [][ (observed' /\ last'.op \in {"edit", "remove"} /\ Lookup.some /\ ~LookupPresent)
        => (last'.result = "NotFound" /\ NoOp) ]_vars

\* C9 amended: such a call changes nothing, and fails with NotFound unless it
\* is an edit with a non-empty unparseable new date, which fails with
\* InvalidDate.
AbsentDateRejected ==
    [][ (observed' /\ last'.op \in {"edit", "remove"} /\ Lookup.some /\ ~LookupPresent)
        => /\ NoOp
           /\ last'.result =
                 (IF last'.op = "edit" /\ Truthy(Args.new_date)
                        /\ ~_validate_date(Args.new_date.v).some
                  THEN "InvalidDate" ELSE "NotFound") ]_vars

\* C9 witness: an edit for a day that is not in a list of two requests, with
\* a new date, a half-day flag and a note, ended NotFound.
AbsentDateRejectedSeen ==
    /\ Recorded("edit") /\ last.result = "NotFound"
    /\ Len(Requests) = 2
    /\ Truthy(last.args.new_date) /\ last.args.is_half_day.some /\ last.args.note.some
    /\ _validate_date(last.args.date.v) = Some(Feb29)

\* The value is a ledger document: a dict with the three keys.
IsLedgerDocument(v) == DOMAIN v = {"yearly_pto_hours", "used_pto_hours", "pto_requests"}

\* C10: a start gives the file's document when the file holds one and the
\* default empty document otherwise, and no later call dies of a KeyError.
StartNeverFails ==
    /\ last.op = "construct" =>
          LET v == JsonLoad(file.text)
          IN  IF file.exists /\ v.ok /\ IsLedgerDocument(v.val)
              THEN data = v.val
              ELSE IsLedgerDocument(data) /\ data = DefaultData
    /\ last.result # "KeyError"

====
